---- MODULE Spec2Model ----
(***************************************************************************)
(* Model of examples-intent/json-integration.py: a client that runs the    *)
(* `intent` CLI as a subprocess, parses the JSON document it prints, and   *)
(* drives policy functions (quality_gate, test_with_feedback, cicd_check,  *)
(* auto_workflow, robust_execution) over the parsed responses.             *)
(*                                                                         *)
(* The CLI is the environment: every invocation draws its outcome (spawn   *)
(* failure, or a return code with the text printed on standard output)     *)
(* from a bounded set.  JSON values are tagged records, so that Python's   *)
(* dynamic behaviour on them (truthiness, subscripting, **-unpacking,      *)
(* comparisons) is computed, not assumed.                                  *)
(***************************************************************************)
EXTENDS Integers, Sequences, FiniteSets, TLC

VARIABLES
    fn,                   \* the policy function the process runs
    pc,                   \* position inside it
    threshold,            \* quality_gate(threshold)
    quality_threshold,    \* cicd_check(quality_threshold)
    coverage_threshold,   \* cicd_check(coverage_threshold), in tenths
    allow_critical_gaps,  \* cicd_check(allow_critical_gaps)
    max_depth,            \* auto_workflow(max_depth)
    result,               \* run_intent_command's local `result` (line 64)
    response,             \* the last JsonResponse run_intent_command returned
    failed,               \* cicd_check's local `failed`
    quality_score,        \* cicd_check's local `quality_score`
    coverage_score,       \* cicd_check's local `coverage_score`
    critical_count,       \* cicd_check's local `critical_count`
    depth,                \* auto_workflow's local `depth`
    trace,                \* what the process did so far, in order: the
                          \* invocations, the prints, the files written
    status,               \* running | returned | exited | uncaught
    exc,                  \* the exception that ended or was caught in the run
    exit_code             \* the process exit status once it has ended

vars == <<fn, pc, threshold, quality_threshold, coverage_threshold,
          allow_critical_gaps, max_depth, result, response, failed,
          quality_score, coverage_score, critical_count, depth, trace,
          status, exc, exit_code>>

----------------------------------------------------------------------------
(* Bounds of the model.                                                    *)

\* longest `errors` list the CLI prints
MaxErrors == 2
\* longest `next_actions` list the CLI prints
MaxActions == 2
\* largest max_depth auto_workflow is started with
MaxDepth == 3

----------------------------------------------------------------------------
(* JSON values, as json.loads builds them.                                 *)

JNull == [t |-> "null"]
JBool(b) == [t |-> "bool", b |-> b]
\* numbers; a fractional number is held in tenths (70.0 is JInt(700))
JInt(n) == [t |-> "int", n |-> n]
\* a string whose characters the client never looks at
JStr(s) == [t |-> "str", s |-> s]
\* a string the client tokenizes: its characters, one per element
JText(cs) == [t |-> "str", cs |-> cs]
JList(l) == [t |-> "list", l |-> l]
\* a JSON object: a function from its keys
JObj(o) == [t |-> "obj", o |-> o]

EmptyObj == JObj(<<>>)

\* the object o without key k
DropKey(o, k) == JObj([x \in (DOMAIN o.o) \ {k} |-> o.o[x]])

\* the object o with key k set to v
SetKey(o, k, v) ==
    JObj([x \in (DOMAIN o.o) \cup {k} |-> IF x = k THEN v ELSE o.o[x]])

(* A Python evaluation either returns a value or raises.                   *)
Return(v) == [raised |-> FALSE, value |-> v]
Raise(e) == [raised |-> TRUE, exc |-> e]

\* bool(v): Python truthiness
Truthy(v) ==
    CASE v.t = "null" -> FALSE
      [] v.t = "bool" -> v.b
      [] v.t = "int" -> v.n # 0
      [] v.t = "str" -> IF "cs" \in DOMAIN v THEN v.cs # <<>> ELSE v.s # ""
      [] v.t = "list" -> v.l # <<>>
      [] v.t = "obj" -> DOMAIN v.o # {}

\* GetItem with the lookup of dict.get: an absent key reads as None
GetItemOrNone(v, k) ==
    IF v.t = "obj"
    THEN IF k \in DOMAIN v.o THEN Return(v.o[k]) ELSE Return(JNull)
    ELSE Raise("TypeError")

\* v[k] for a string key k
GetItem(v, k) ==
    IF v.t = "obj"
    THEN IF k \in DOMAIN v.o THEN Return(v.o[k]) ELSE Raise("KeyError")
    ELSE Raise("TypeError")

\* v.get(k): None when the key is absent
GetOrNone(v, k) ==
    IF v.t = "obj"
    THEN IF k \in DOMAIN v.o THEN Return(v.o[k]) ELSE Return(JNull)
    ELSE Raise("AttributeError")

\* the number a value counts as in a comparison; bool is a subclass of int
IsNumber(v) == v.t \in {"int", "bool"}
NumberOf(v) == IF v.t = "bool" THEN (IF v.b THEN 1 ELSE 0) ELSE v.n

\* LessThan with <= for <
LessThanOrEqual(v, n) ==
    IF IsNumber(v) THEN Return(NumberOf(v) <= n) ELSE Raise("TypeError")

\* v < n for an int n
LessThan(v, n) ==
    IF IsNumber(v) THEN Return(NumberOf(v) < n) ELSE Raise("TypeError")

\* GreaterThan with >= for >
GreaterThanOrEqual(v, n) ==
    IF IsNumber(v) THEN Return(NumberOf(v) >= n) ELSE Raise("TypeError")

\* v > n for an int n
GreaterThan(v, n) ==
    IF IsNumber(v) THEN Return(NumberOf(v) > n) ELSE Raise("TypeError")

\* f"{v:.1f}"
FormatFixed(v) ==
    CASE IsNumber(v) -> Return(v)
      [] v.t = "str" -> Raise("ValueError")
      [] OTHER -> Raise("TypeError")

----------------------------------------------------------------------------
(* The dataclasses (lines 20-53) and their construction by **-unpacking.   *)

JsonErrorFields == {"code", "message", "location", "fix_hint", "fix_command"}
JsonErrorRequired == {"code", "message"}
NextActionFields == {"command", "reason"}
JsonMetadataFields ==
    {"timestamp", "version", "exit_code", "correlation_id", "duration_ms"}

\* Cls(**v) for a dataclass with the given fields, of which `required` have
\* no default (the others default to None): v must be a mapping, may hold
\* no unknown key and must hold every required one.  Values are not checked.
Construct(v, fields, required) ==
    IF v.t # "obj" THEN Raise("TypeError")
    ELSE IF ~(DOMAIN v.o \subseteq fields) THEN Raise("TypeError")
    ELSE IF ~(required \subseteq DOMAIN v.o) THEN Raise("TypeError")
    ELSE Return([k \in fields |-> IF k \in DOMAIN v.o THEN v.o[k] ELSE JNull])

JsonError(e) == Construct(e, JsonErrorFields, JsonErrorRequired)
NextAction(a) == Construct(a, NextActionFields, NextActionFields)
JsonMetadata(m) == Construct(m, JsonMetadataFields, JsonMetadataFields)

RECURSIVE SetToSeq(_)
SetToSeq(S) ==
    IF S = {} THEN <<>>
    ELSE LET x == CHOOSE y \in S : TRUE IN <<x>> \o SetToSeq(S \ {x})

\* what `for e in v` yields: the items of a list, the keys of an object,
\* the characters of a string; anything else is not iterable
Elements(v) ==
    CASE v.t = "list" -> Return(v.l)
      [] v.t = "obj" ->
           Return(SetToSeq({JStr(k) : k \in DOMAIN v.o}))
      [] v.t = "str" ->
           Return(IF "cs" \in DOMAIN v
                  THEN [i \in 1..Len(v.cs) |-> JStr(v.cs[i])]
                  ELSE IF v.s = "" THEN <<>> ELSE <<JStr(v.s)>>)
      [] OTHER -> Raise("TypeError")

\* ConstructEach that builds the list back to front
RECURSIVE ConstructEachReversed(_, _, _)
ConstructEachReversed(items, fields, required) ==
    IF items = <<>> THEN Return(<<>>)
    ELSE LET h == Construct(Head(items), fields, required) IN
         IF h.raised THEN h
         ELSE LET r == ConstructEachReversed(Tail(items), fields, required) IN
              IF r.raised THEN r ELSE Return(r.value \o <<h.value>>)

\* [Cls(**e) for e in items]: the first element that cannot be constructed
\* raises, the others are built in order
RECURSIVE ConstructEach(_, _, _)
ConstructEach(items, fields, required) ==
    IF items = <<>> THEN Return(<<>>)
    ELSE LET h == Construct(Head(items), fields, required) IN
         IF h.raised THEN h
         ELSE LET r == ConstructEach(Tail(items), fields, required) IN
              IF r.raised THEN r ELSE Return(<<h.value>> \o r.value)

\* [Cls(**e) for e in v]
ConstructList(v, fields, required) ==
    LET it == Elements(v) IN
    IF it.raised THEN it ELSE ConstructEach(it.value, fields, required)

----------------------------------------------------------------------------
(* run_intent_command (lines 60-83).                                       *)

\* the text a subprocess printed: not JSON at all, or the JSON value it is
NotJson == [json |-> FALSE]
JsonText(v) == [json |-> TRUE, v |-> v]

\* subprocess.run(full_command, capture_output=True, text=True, check=False):
\* the executable cannot be started, or it ran and ended with a return code
SpawnFailure == [spawned |-> FALSE]
Completed(rc, out) == [spawned |-> TRUE, returncode |-> rc, stdout |-> out]

\* json.loads(result.stdout)
JsonLoads(text) ==
    IF text.json THEN Return(text.v) ELSE Raise("JSONDecodeError")

\* the argument list of line 62
FullCommand(command, args) == <<"intent", command>> \o args \o <<"--json=true">>

\* the keyword arguments of JsonResponse(...), lines 75-81, in the order
\* Python evaluates them
RequiredFields ==
    <<"success", "action", "command", "data", "errors", "next_actions",
      "metadata">>

\* one keyword argument of JsonResponse(...): response_data[f], and for
\* errors, next_actions and metadata the dataclasses built from it
FieldValue(d, f) ==
    LET g == GetItem(d, f) IN
    IF g.raised THEN g
    ELSE CASE f = "errors" ->
                ConstructList(g.value, JsonErrorFields, JsonErrorRequired)
           [] f = "next_actions" ->
                ConstructList(g.value, NextActionFields, NextActionFields)
           [] f = "metadata" -> JsonMetadata(g.value)
           [] OTHER -> g

\* lines 74-83: the conversion of the loaded document to a JsonResponse; the
\* first keyword argument that raises ends it
ToJsonResponse(d) ==
    LET bad == {i \in 1..Len(RequiredFields) :
                    FieldValue(d, RequiredFields[i]).raised}
    IN IF bad # {}
       THEN FieldValue(d, RequiredFields[CHOOSE i \in bad : \A j \in bad : i <= j])
       ELSE Return([
                success |-> FieldValue(d, "success").value,
                action |-> FieldValue(d, "action").value,
                command |-> FieldValue(d, "command").value,
                data |-> FieldValue(d, "data").value,
                errors |-> FieldValue(d, "errors").value,
                next_actions |-> FieldValue(d, "next_actions").value,
                metadata |-> FieldValue(d, "metadata").value,
                spec_path |-> GetOrNone(d, "spec_path").value])

\* run_intent_command(command, args) when subprocess.run has the outcome o:
\* the return code is not looked at (check=False, returncode never read)
run_intent_command(o) ==
    IF ~o.spawned THEN Raise("FileNotFoundError")
    ELSE LET response_data == JsonLoads(o.stdout) IN
         IF response_data.raised THEN response_data
         ELSE ToJsonResponse(response_data.value)

\* is_success (lines 86-88): `a and b` is a when a is falsy, else b
is_success(r) ==
    IF ~Truthy(r.success) THEN r.success
    ELSE JBool(r.metadata.exit_code = JInt(0))

\* get_error_messages that gives the first message only
get_first_error_message(r) ==
    [i \in 1..(IF r.errors = <<>> THEN 0 ELSE 1) |-> r.errors[i].message]

\* get_error_messages (lines 91-93)
get_error_messages(r) == [i \in 1..Len(r.errors) |-> r.errors[i].message]

\* get_next_actions (lines 96-98)
get_next_actions(r) ==
    [i \in 1..Len(r.next_actions) |-> r.next_actions[i].command]

----------------------------------------------------------------------------
(* What the CLI can answer: the inputs of the model.                       *)

\* sys.argv[1], or its default (line 392)
SpecPath == "examples/user-api.cue"

\* the characters of the words the CLI's suggestions are made of
ChIntent == <<"i", "n", "t", "e", "n", "t">>
ChCoverage == <<"c", "o", "v", "e", "r", "a", "g", "e">>
ChGaps == <<"g", "a", "p", "s">>
ChCheck == <<"c", "h", "e", "c", "k">>
ChEffects == <<"e", "f", "f", "e", "c", "t", "s">>
ChSpec == <<"s", ".", "c", "u", "e">>
ChLongFlag == <<"-", "-", "v">>
ChShortFlag == <<"-", "o">>
Sp == <<" ">>
Tab == <<"\t">>

\* "intent coverage s.cue"
CmdCoverage == ChIntent \o Sp \o ChCoverage \o Sp \o ChSpec
\* "intent gaps --v s.cue -o"
CmdGaps ==
    ChIntent \o Sp \o ChGaps \o Sp \o ChLongFlag \o Sp \o ChSpec \o Sp
        \o ChShortFlag
\* " intent \t check "
CmdCheck == Sp \o ChIntent \o Sp \o Tab \o Sp \o ChCheck \o Sp
\* "intent effects s.cue", the suggestion that follows the first one
CmdEffects == ChIntent \o Sp \o ChEffects \o Sp \o ChSpec
\* "intent": a suggestion that names no sub-command
CmdToolOnly == ChIntent

\* "": a suggestion with no text
CmdEmpty == <<>>
\* " \t": a suggestion of whitespace only
CmdBlank == Sp \o Tab

NextCommands ==
    {CmdCoverage, CmdGaps, CmdCheck, CmdToolOnly, CmdEmpty, CmdBlank}

ActionObj(cs) == JObj([command |-> JText(cs), reason |-> JStr("because")])

\* the next_actions lists: empty, or a first suggestion followed by others
ActionLists ==
    {<<>>} \cup
    {[i \in 1..n |-> IF i = 1 THEN ActionObj(c) ELSE ActionObj(CmdEffects)] :
        c \in NextCommands, n \in 1..MaxActions}

\* an error with the required fields only, and one with every field
ErrorPlain == JObj([code |-> JStr("E001"), message |-> JStr("missing field")])
ErrorFixable ==
    JObj([code |-> JStr("E002"), message |-> JStr("bad type"),
          location |-> JStr("spec.cue:3"), fix_hint |-> JStr("use int"),
          fix_command |-> JStr("intent fix spec.cue")])

\* the errors lists
ErrorLists ==
    {[i \in 1..n |-> IF i % 2 = 1 THEN ErrorPlain ELSE ErrorFixable] :
        n \in 0..MaxErrors}

\* metadata.exit_code as the CLI reports it
ExitCodes == {0, 7}

\* the return code of the subprocess itself
ReturnCodes == {0, 1, 7}

MetadataObj(ec) ==
    JObj([timestamp |-> JStr("2026-01-01T00:00:00Z"), version |-> JStr("1.0"),
          exit_code |-> JInt(ec), correlation_id |-> JStr("c-1"),
          duration_ms |-> JInt(5)])

\* `quality`: scores around the thresholds, and a document without the score
QualityData ==
    {JObj([overall_score |-> JInt(n),
           issues |-> JList(<<JStr("issue-1"), JStr("issue-2")>>),
           suggestions |-> JList(<<JStr("suggestion-1")>>)]) : n \in {79, 80, 81}}
    \cup {JObj([issues |-> JList(<<>>), suggestions |-> JList(<<>>)])}

\* `coverage`: overall_score in tenths of a percent
CoverageData ==
    {JObj([overall_score |-> JInt(n)]) : n \in {600, 700, 701}}

GapObj(sev) ==
    JObj([severity |-> JStr(sev), description |-> JStr("gap-" \o sev),
          suggestion |-> JStr("fix")])

\* `gaps`
GapsData ==
    {JObj([severity_breakdown |-> JObj([critical |-> JInt(n)]),
           security_gaps |->
               JList([i \in 1..(n + 1) |->
                        IF i <= n THEN GapObj("critical") ELSE GapObj("high")])]) :
        n \in {0, 1}}

\* `check`
CheckData ==
    {JObj([total |-> JInt(5), passed |-> JInt(5 - n), failed |-> JInt(n),
           skipped |-> JInt(0), duration_ms |-> JInt(12)]) : n \in {0, 2}}
    \cup {JObj([total |-> JInt(5), passed |-> JInt(5)])}

BeadObj(name) ==
    JObj([behavior_name |-> JStr(name), priority |-> JInt(1),
          feature |-> JStr("f"), failure_type |-> JStr("assertion"),
          description |-> JStr("d"), fix_suggestion |-> JStr("s")])

\* `feedback`
FeedbackData ==
    {JObj([fix_beads |-> JList([i \in 1..n |-> BeadObj("b")])]) : n \in {0, 2}}

DataFor(command) ==
    CASE command = "quality" -> QualityData
      [] command = "coverage" -> CoverageData
      [] command = "gaps" -> GapsData
      [] command = "check" -> CheckData
      [] command = "feedback" -> FeedbackData
      [] OTHER -> {EmptyObj}

\* a document with every field of the schema
ResponseObj(command, success, ec, data, errors, next_actions) ==
    JObj([success |-> JBool(success), action |-> JStr("analyze"),
          command |-> JStr(command), data |-> data, errors |-> JList(errors),
          next_actions |-> JList(next_actions), metadata |-> MetadataObj(ec),
          spec_path |-> JStr(SpecPath)])

\* the well-formed documents: every verdict and exit code, with every data
\* and errors list (no suggestion), or with every list of suggestions (one
\* data, no error)
WellFormed(command) ==
    {ResponseObj(command, s, ec, d, es, <<>>) :
        s \in BOOLEAN, ec \in ExitCodes, d \in DataFor(command),
        es \in ErrorLists}
    \cup
    {ResponseObj(command, s, ec, CHOOSE d \in DataFor(command) : TRUE, <<>>, as) :
        s \in BOOLEAN, ec \in ExitCodes, as \in ActionLists}

\* one well-formed document of the command
BaseObj(command) ==
    ResponseObj(command, TRUE, 0, CHOOSE d \in DataFor(command) : TRUE,
                <<>>, <<>>)

\* documents that lack one required field
Incomplete(command) ==
    {DropKey(BaseObj(command), RequiredFields[i]) :
        i \in 1..Len(RequiredFields)}

\* what standard output can hold after `intent <command> ...`
Stdouts(command) ==
    {NotJson} \cup
    {JsonText(v) : v \in WellFormed(command) \cup Incomplete(command)}

\* the sub-commands the process can come to run
Commands == {"quality", "coverage", "gaps", "check", "feedback"}

\* the return code of a CLI that ends with the exit code it reports, and
\* with 1 when it reports none
ReportedCode(out) ==
    IF out.json /\ out.v.t = "obj" /\ "metadata" \in DOMAIN out.v.o
    THEN out.v.o["metadata"].o["exit_code"].n
    ELSE 1

\* what subprocess.run can do for `intent <command> ...` inside a policy
\* function.  run_intent_command never reads the return code, so one return
\* code per document is drawn here; RunnerOutcomes draws every pair.
Outcomes ==
    [command \in Commands |->
        {SpawnFailure} \cup
        {Completed(ReportedCode(out), out) : out \in Stdouts(command)}]

\* every outcome of the model
AllOutcomes == UNION {Outcomes[c] : c \in Commands}

\* run_intent_command on every outcome of the model, computed once
Ran == [o \in AllOutcomes |-> run_intent_command(o)]

----------------------------------------------------------------------------
(* The process: what it does, and how it ends.                             *)

\* run_intent_command handing full_command to subprocess.run
Invoke(command, args) == [ev |-> "invoke", argv |-> FullCommand(command, args)]
\* print(...) of one line: which line, and the value formatted into it
Say(what, val) == [ev |-> "print", what |-> what, val |-> val]
\* a line on the error stream
SayErr(what, val) == [ev |-> "stderr", what |-> what, val |-> val]
\* json.dump(content, f) into the file `name`
WriteFile(name, content) == [ev |-> "write", file |-> name, content |-> content]

\* print(...) once per item, in order
SayEach(what, items) == [i \in 1..Len(items) |-> Say(what, items[i])]

\* how a policy function ends, after the events tr: it returns, it calls
\* sys.exit(code), or an exception leaves it
Returned(tr) == [how |-> "returned", tr |-> tr, exc |-> "none", code |-> JInt(0)]
Exited(tr, code) == [how |-> "exited", tr |-> tr, exc |-> "SystemExit", code |-> code]
Raised(tr, e) == [how |-> "raised", tr |-> tr, exc |-> e, code |-> JInt(1)]

\* the exit status sys.exit(code) gives the process: an int is the status
\* (the OS keeps its low 8 bits), None is 0, anything else is printed and
\* the status is 1
ExitStatus(code) ==
    CASE IsNumber(code) -> NumberOf(code) % 256
      [] code.t = "null" -> 0
      [] OTHER -> 1

NoResponse == [unset |-> TRUE]
NoResult == [unset |-> TRUE]

----------------------------------------------------------------------------
(* quality_gate (lines 105-137).                                           *)

\* lines 118-128: the gate failed; report issues and suggestions, exit 1
QualityGateFail(r, tr) ==
    LET issues == GetItem(r.data, "issues") IN
    IF issues.raised THEN Raised(tr, issues.exc)
    ELSE LET is == Elements(issues.value) IN
    IF is.raised THEN Raised(tr, is.exc)
    ELSE LET tr1 == tr \o SayEach("issue", is.value)
             suggestions == GetItem(r.data, "suggestions")
         IN
    IF suggestions.raised THEN Raised(tr1, suggestions.exc)
    ELSE LET su == Elements(suggestions.value) IN
    IF su.raised THEN Raised(tr1, su.exc)
    ELSE Exited(tr1 \o SayEach("suggestion", su.value), JInt(1))

\* lines 130-137: the gate passed; list the suggested next steps
QualityGatePass(r, tr) ==
    Returned(tr \o <<Say("Quality gate passed", r.data.o["overall_score"])>>
                \o [i \in 1..Len(r.next_actions) |->
                        Say("next step", r.next_actions[i].command)])

\* lines 111-137, on the response r that run_intent_command returned
QualityGateDecide(r, th, tr) ==
    IF ~Truthy(r.success)
    THEN IF \A i \in 1..Len(r.errors) : r.errors[i].message.t = "str"
         THEN Raised(tr \o <<SayErr("Quality check failed",
                                      JList(get_error_messages(r)))>>,
                     "RuntimeError")
         ELSE Raised(tr, "TypeError")
    ELSE LET score == GetItem(r.data, "overall_score") IN
    IF score.raised THEN Raised(tr, score.exc)
    ELSE LET tr1 == tr \o <<Say("Quality score", score.value)>>
             below == LessThan(score.value, th)
         IN
    IF below.raised THEN Raised(tr1, below.exc)
    ELSE IF below.value
         THEN QualityGateFail(r, tr1 \o <<Say("Quality gate failed", score.value)>>)
         ELSE QualityGatePass(r, tr1)

\* quality_gate(spec_path, th), where r is how run_intent_command ended
quality_gate(r, th) ==
    LET tr == <<Say("Running quality gate", JInt(th)),
                Invoke("quality", <<SpecPath>>)>>
    IN IF r.raised THEN Raised(tr, r.exc) ELSE QualityGateDecide(r.value, th, tr)

----------------------------------------------------------------------------
(* robust_execution (lines 353-384).                                       *)

\* lines 360-367: one error, with the optional fields that are truthy
ReportError(e) ==
    <<Say("error", JList(<<e.code, e.message>>))>>
    \o (IF Truthy(e.location) THEN <<Say("at", e.location)>> ELSE <<>>)
    \o (IF Truthy(e.fix_hint) THEN <<Say("hint", e.fix_hint)>> ELSE <<>>)
    \o (IF Truthy(e.fix_command) THEN <<Say("fix", e.fix_command)>> ELSE <<>>)

RECURSIVE ReportErrors(_)
ReportErrors(es) ==
    IF es = <<>> THEN <<>> ELSE ReportError(Head(es)) \o ReportErrors(Tail(es))

\* line 370: [e for e in response.errors if e.fix_command]
RECURSIVE FixableErrors(_)
FixableErrors(es) ==
    IF es = <<>> THEN <<>>
    ELSE (IF Truthy(Head(es).fix_command) THEN <<Head(es)>> ELSE <<>>)
         \o FixableErrors(Tail(es))

\* AnnounceFixes that runs each fix command it prints
AnnounceAndRunFixes(es) ==
    IF es = <<>> THEN <<>>
    ELSE <<Say("Attempting auto-fix", JNull)>>
         \o [i \in 1..(2 * Len(es)) |->
                IF i % 2 = 1 THEN Say("Running", es[(i + 1) \div 2].fix_command)
                ELSE Invoke("fix", <<SpecPath>>)]

\* lines 371-375: the fix commands are printed, never run
AnnounceFixes(es) ==
    IF es = <<>> THEN <<>>
    ELSE <<Say("Attempting auto-fix", JNull)>>
         \o [i \in 1..Len(es) |-> Say("Running", es[i].fix_command)]

\* lines 356-380: the body of the try block, where r is how
\* run_intent_command ended
RobustBody(r) ==
    LET tr == <<Invoke("quality", <<SpecPath>>)>>
    IN IF r.raised THEN Raised(tr, r.exc)
       ELSE IF ~Truthy(r.value.success)
            THEN Exited(tr \o <<Say("Command failed", JNull)>>
                           \o ReportErrors(r.value.errors)
                           \o AnnounceFixes(FixableErrors(r.value.errors)),
                        r.value.metadata.exit_code)
            ELSE Returned(tr \o <<Say("Success", JNull),
                                  Say("Correlation ID",
                                        r.value.metadata.correlation_id)>>)

\* IsException for `except (OSError, ValueError)`: the failures of the spawn
\* and of json.loads only
IsSpawnOrJsonError(e) == e \in {"FileNotFoundError", "JSONDecodeError"}

\* isinstance(e, Exception): true of every exception the model raises;
\* SystemExit derives from BaseException only
IsException(e) == e # "SystemExit"

\* CatchAll as a bare `except:`, which takes SystemExit too
CatchAllBare(b) ==
    IF b.how \in {"raised", "exited"}
    THEN [how |-> "exited",
          tr |-> b.tr \o <<SayErr("Execution error", JStr(b.exc))>>,
          exc |-> b.exc, code |-> JInt(4)]
    ELSE b

\* lines 382-384: `except Exception` takes every exception of the body but
\* SystemExit, which is no Exception; it prints it and exits with 4
CatchAll(b) ==
    IF b.how = "raised" /\ IsException(b.exc)
    THEN [Exited(b.tr \o <<SayErr("Execution error", JStr(b.exc))>>, JInt(4))
            EXCEPT !.exc = b.exc]
    ELSE b

\* robust_execution(spec_path)
robust_execution(r) == CatchAll(RobustBody(r))

----------------------------------------------------------------------------
(* test_with_feedback (lines 213-247).                                     *)

\* the file of line 230
ResultsFile == "check-results.json"

\* a policy function that has not ended: it goes on at position `at`
Continue(tr, at) == [how |-> "continue", tr |-> tr, at |-> at]

\* print(v[k]) for each key k in turn; the first absent key raises
RECURSIVE SayKeys(_, _, _)
SayKeys(v, keys, tr) ==
    IF keys = <<>> THEN [raised |-> FALSE, tr |-> tr]
    ELSE LET g == GetItem(v, Head(keys)) IN
         IF g.raised THEN [raised |-> TRUE, exc |-> g.exc, tr |-> tr]
         ELSE SayKeys(v, Tail(keys), tr \o <<Say(Head(keys), g.value)>>)

\* SaveResults without the write of lines 231-232
SaveResultsNoWrite(data) == <<Say("Tests failed", JNull)>>

\* lines 227-232: announce the failures and save the check results
SaveResults(data) ==
    <<Say("Tests failed", JNull), WriteFile(ResultsFile, data)>>

\* lines 215-232 and 247: run `check`, report, and on failures save the data
TestWithFeedbackCheck(r) ==
    LET tr == <<Say("Running tests", JNull), Invoke("check", <<SpecPath>>)>>
    IN
    IF r.raised THEN Raised(tr, r.exc)
    ELSE LET check_response == r.value
             p == SayKeys(check_response.data,
                          <<"total", "passed", "failed", "skipped", "duration_ms">>,
                          tr)
         IN
    IF p.raised THEN Raised(p.tr, p.exc)
    ELSE LET some == GreaterThan(check_response.data.o["failed"], 0) IN
    IF some.raised THEN Raised(p.tr, some.exc)
    ELSE IF some.value
         THEN Continue(p.tr \o SaveResults(check_response.data), "feedback")
         ELSE Returned(p.tr \o <<Say("All tests passed", JNull)>>)

\* lines 238-243: one block per fix bead
RECURSIVE SayBeads(_, _)
SayBeads(beads, tr) ==
    IF beads = <<>> THEN [raised |-> FALSE, tr |-> tr]
    ELSE LET p == SayKeys(Head(beads),
                          <<"behavior_name", "priority", "feature",
                            "failure_type", "description", "fix_suggestion">>,
                          tr)
         IN IF p.raised THEN p ELSE SayBeads(Tail(beads), p.tr)

\* lines 235-245: run `feedback` on the saved file, report the beads, exit 1
TestWithFeedbackFeedback(r) ==
    LET tr == <<Invoke("feedback", <<"--results", ResultsFile>>)>>
    IN
    IF r.raised THEN Raised(tr, r.exc)
    ELSE LET beads == GetItem(r.value.data, "fix_beads") IN
    IF beads.raised THEN Raised(tr, beads.exc)
    ELSE LET bs == Elements(beads.value) IN
    IF bs.raised THEN Raised(tr, bs.exc)
    ELSE LET p == SayBeads(bs.value, tr \o <<Say("Fix Beads Generated", JNull)>>) IN
    IF p.raised THEN Raised(p.tr, p.exc)
    ELSE Exited(p.tr, JInt(1))

----------------------------------------------------------------------------
(* cicd_check (lines 254-315).  Each step gives, besides how it ends, the  *)
(* values it leaves in the locals.                                         *)

\* Step that stops at the first failed check
StepShortCircuit(tr, at, val, f) ==
    IF f THEN [how |-> "exited", tr |-> tr, exc |-> "SystemExit", code |-> JInt(1)]
    ELSE [how |-> "continue", tr |-> tr, at |-> at, val |-> val, failed |-> f]

\* a step that went through: the local it read, and `failed` after it
Step(tr, at, val, f) ==
    [how |-> "continue", tr |-> tr, at |-> at, val |-> val, failed |-> f]

\* lines 261-274
CicdQuality(r, f, qt) ==
    LET tr == <<Say("CI/CD Quality Check", JNull), Invoke("quality", <<SpecPath>>)>>
    IN
    IF r.raised THEN Raised(tr, r.exc)
    ELSE LET score == GetItem(r.value.data, "overall_score") IN
    IF score.raised THEN Raised(tr, score.exc)
    ELSE LET tr1 == tr \o <<Say("Quality", score.value)>>
             below == LessThan(score.value, qt)
         IN
    IF below.raised THEN Raised(tr1, below.exc)
    ELSE IF below.value
         THEN Step(tr1 \o <<Say("Below threshold", JStr("quality"))>>,
                   "coverage", score.value, TRUE)
         ELSE Step(tr1 \o <<Say("Passed", JStr("quality"))>>,
                   "coverage", score.value, f)

\* lines 277-285
CicdCoverage(r, f, ct) ==
    LET tr == <<Invoke("coverage", <<SpecPath>>)>>
    IN
    IF r.raised THEN Raised(tr, r.exc)
    ELSE LET score == GetItem(r.value.data, "overall_score") IN
    IF score.raised THEN Raised(tr, score.exc)
    ELSE LET shown == FormatFixed(score.value) IN
    IF shown.raised THEN Raised(tr, shown.exc)
    ELSE LET tr1 == tr \o <<Say("Coverage", shown.value)>>
             below == LessThan(score.value, ct)
         IN
    IF below.raised THEN Raised(tr1, below.exc)
    ELSE IF below.value
         THEN Step(tr1 \o <<Say("Below threshold", JStr("coverage"))>>,
                   "gaps", score.value, TRUE)
         ELSE Step(tr1 \o <<Say("Passed", JStr("coverage"))>>,
                   "gaps", score.value, f)

\* lines 294-296: the descriptions of the critical gaps
RECURSIVE SayCriticalGaps(_, _)
SayCriticalGaps(gaps, tr) ==
    IF gaps = <<>> THEN [raised |-> FALSE, tr |-> tr]
    ELSE LET sev == GetItem(Head(gaps), "severity") IN
         IF sev.raised THEN [raised |-> TRUE, exc |-> sev.exc, tr |-> tr]
         ELSE IF sev.value = JStr("critical")
              THEN LET d == GetItem(Head(gaps), "description") IN
                   IF d.raised THEN [raised |-> TRUE, exc |-> d.exc, tr |-> tr]
                   ELSE SayCriticalGaps(Tail(gaps),
                                        tr \o <<Say("critical gap", d.value)>>)
              ELSE SayCriticalGaps(Tail(gaps), tr)

\* lines 288-299
CicdGaps(r, f, allow) ==
    LET tr == <<Invoke("gaps", <<SpecPath>>)>>
    IN
    IF r.raised THEN Raised(tr, r.exc)
    ELSE LET breakdown == GetItem(r.value.data, "severity_breakdown") IN
    IF breakdown.raised THEN Raised(tr, breakdown.exc)
    ELSE LET count == GetItem(breakdown.value, "critical") IN
    IF count.raised THEN Raised(tr, count.exc)
    ELSE LET tr1 == tr \o <<Say("Critical Gaps", count.value)>>
             some == GreaterThan(count.value, 0)
         IN
    IF some.raised THEN Raised(tr1, some.exc)
    ELSE IF some.value /\ ~allow
         THEN LET tr2 == tr1 \o <<Say("Critical gaps not allowed", JNull)>>
                  gaps == GetItem(r.value.data, "security_gaps")
              IN
              IF gaps.raised THEN Raised(tr2, gaps.exc)
              ELSE LET gs == Elements(gaps.value) IN
              IF gs.raised THEN Raised(tr2, gs.exc)
              ELSE LET p == SayCriticalGaps(gs.value, tr2) IN
              IF p.raised THEN Raised(p.tr, p.exc)
              ELSE Step(p.tr, "check", count.value, TRUE)
         ELSE Step(tr1 \o <<Say("Passed", JStr("gaps"))>>, "check", count.value, f)

\* lines 302-315
CicdCheck(r, f) ==
    LET tr == <<Invoke("check", <<SpecPath>>)>>
    IN
    IF r.raised THEN Raised(tr, r.exc)
    ELSE LET p == SayKeys(r.value.data, <<"passed", "total">>, tr) IN
    IF p.raised THEN Raised(p.tr, p.exc)
    ELSE LET n == GetItem(r.value.data, "failed") IN
    IF n.raised THEN Raised(p.tr, n.exc)
    ELSE LET some == GreaterThan(n.value, 0) IN
    IF some.raised THEN Raised(p.tr, some.exc)
    ELSE LET f1 == f \/ some.value
             tr1 == p.tr \o <<IF some.value THEN Say("tests failed", n.value)
                              ELSE Say("All tests passed", JNull)>>
         IN
         IF f1 THEN Exited(tr1 \o <<Say("CI/CD check failed", JNull)>>, JInt(1))
         ELSE Returned(tr1 \o <<Say("CI/CD check passed", JNull)>>)

----------------------------------------------------------------------------
(* auto_workflow (lines 322-346).                                          *)

Whitespace == {" ", "\t", "\n", "\r"}

\* cs without its leading whitespace
RECURSIVE SkipSpace(_)
SkipSpace(cs) ==
    IF cs # <<>> /\ Head(cs) \in Whitespace THEN SkipSpace(Tail(cs)) ELSE cs

\* the longest prefix of cs without whitespace
RECURSIVE TakeWord(_)
TakeWord(cs) ==
    IF cs = <<>> \/ Head(cs) \in Whitespace THEN <<>>
    ELSE <<Head(cs)>> \o TakeWord(Tail(cs))

\* str.split(): the maximal runs of non-whitespace characters, in order
RECURSIVE Split(_)
Split(cs) ==
    LET rest == SkipSpace(cs) IN
    IF rest = <<>> THEN <<>>
    ELSE LET w == TakeWord(rest) IN
         <<w>> \o Split(SubSeq(rest, Len(w) + 1, Len(rest)))

\* arg.startswith(prefix)
StartsWith(cs, prefix) ==
    Len(cs) >= Len(prefix) /\ SubSeq(cs, 1, Len(prefix)) = prefix

\* the string made of the characters cs
RECURSIVE Join(_)
Join(cs) == IF cs = <<>> THEN "" ELSE Head(cs) \o Join(Tail(cs))

\* Positional that takes a single dash for the flag prefix
RECURSIVE PositionalNoDash(_)
PositionalNoDash(parts) ==
    IF parts = <<>> THEN <<>>
    ELSE (IF StartsWith(Head(parts), <<"-">>) THEN <<>>
          ELSE <<Join(Head(parts))>>)
         \o PositionalNoDash(Tail(parts))

\* line 341: [arg for arg in parts[2:] if not arg.startswith('--')]
RECURSIVE Positional(_)
Positional(parts) ==
    IF parts = <<>> THEN <<>>
    ELSE (IF StartsWith(Head(parts), <<"-", "-">>) THEN <<>>
          ELSE <<Join(Head(parts))>>)
         \o Positional(Tail(parts))

\* ParseCommand that takes a missing sub-command for `check`
ParseCommandLenient(v) ==
    IF v.t # "str" THEN Raise("AttributeError")
    ELSE LET parts == Split(v.cs) IN
         IF Len(parts) < 2 THEN Return([command |-> "check", args |-> <<>>])
         ELSE Return([command |-> Join(parts[2]),
                      args |-> Positional(SubSeq(parts, 3, Len(parts)))])

\* lines 339-341: the sub-command and the arguments a suggestion names
ParseCommand(v) ==
    IF v.t # "str" THEN Raise("AttributeError")
    ELSE LET parts == Split(v.cs) IN
         IF Len(parts) < 2 THEN Raise("IndexError")
         ELSE Return([command |-> Join(parts[2]),
                      args |-> Positional(SubSeq(parts, 3, Len(parts)))])

\* LoopCondition with <= for <
LoopConditionOffByOne(r, d, md) == r.next_actions # <<>> /\ d <= md

\* LoopCondition without the depth cap
LoopConditionNoCap(r, d, md) == r.next_actions # <<>>

\* line 329: the loop condition
LoopCondition(r, d, md) == r.next_actions # <<>> /\ d < md

\* lines 330-336: what one iteration prints before it parses the suggestion
StepHeader(r, d) ==
    <<Say("Step", JInt(d + 1)), Say("Command", r.command),
      Say("Action", r.action), Say("Next", r.next_actions[1].command),
      Say("Reason", r.next_actions[1].reason)>>

\* lines 324-327
AutoWorkflowStart(r) ==
    LET tr == <<Say("Starting automated workflow", JNull),
                Invoke("quality", <<SpecPath>>)>>
    IN IF r.raised THEN Raised(tr, r.exc) ELSE Continue(tr, "loop")

\* lines 343-344, for the parsed suggestion p
AutoWorkflowInvoke(r, p, tr) ==
    LET tr1 == tr \o <<Invoke(p.command, p.args)>>
    IN IF r.raised THEN Raised(tr1, r.exc) ELSE Continue(tr1, "loop")

----------------------------------------------------------------------------
(* The process as a state machine.                                         *)

PolicyFunctions ==
    {"quality_gate", "test_with_feedback", "cicd_check", "auto_workflow",
     "robust_execution"}

\* the thresholds quality_gate and cicd_check are called with: the default
\* of lines 105 and 256, and one above it
DefaultThreshold == 80
Thresholds == {DefaultThreshold, DefaultThreshold + 1}

\* the default of line 257, in tenths
DefaultCoverageThreshold == 700

\* the default of line 322
DefaultMaxDepth == 3

\* the depths auto_workflow is called with
Depths == (-1)..MaxDepth

Init ==
    /\ fn \in PolicyFunctions
    /\ pc = "start"
    /\ threshold \in (IF fn = "quality_gate" THEN Thresholds
                      ELSE {DefaultThreshold})
    /\ quality_threshold \in (IF fn = "cicd_check" THEN Thresholds
                              ELSE {DefaultThreshold})
    /\ coverage_threshold = DefaultCoverageThreshold
    /\ allow_critical_gaps \in (IF fn = "cicd_check" THEN BOOLEAN ELSE {FALSE})
    /\ max_depth \in (IF fn = "auto_workflow" THEN Depths ELSE {DefaultMaxDepth})
    /\ result = NoResult
    /\ response = NoResponse
    /\ failed = FALSE
    /\ quality_score = JNull
    /\ coverage_score = JNull
    /\ critical_count = JNull
    /\ depth = 0
    /\ trace = <<>>
    /\ status = "running"
    /\ exc = "none"
    /\ exit_code = -1

\* the end of the process: a return from the policy function lets main
\* return (status 0), sys.exit gives its status, and an exception nobody
\* caught makes the interpreter print it and end with status 1
End(b) ==
    /\ pc' = "done"
    /\ trace' = trace \o b.tr
           \o (IF b.how = "raised" THEN <<SayErr("Traceback", JStr(b.exc))>>
               ELSE <<>>)
    /\ status' = (IF b.how = "raised" THEN "uncaught" ELSE b.how)
    /\ exc' = b.exc
    /\ exit_code' = (CASE b.how = "returned" -> 0
                       [] b.how = "exited" -> ExitStatus(b.code)
                       [] b.how = "raised" -> 1)

\* the policy function goes on
Go(b) ==
    /\ pc' = b.at
    /\ trace' = trace \o b.tr
    /\ UNCHANGED <<status, exc, exit_code>>

\* a step of a policy function, ended or not
Do(b) == IF b.how = "continue" THEN Go(b) ELSE End(b)

\* the response a call of run_intent_command leaves in its caller's local;
\* a call that raises assigns nothing
Responded(r) == IF r.raised THEN response ELSE r.value

Params == <<fn, threshold, quality_threshold, coverage_threshold,
            allow_critical_gaps, max_depth>>

CicdLocals == <<failed, quality_score, coverage_score, critical_count>>

QualityGate ==
    /\ fn = "quality_gate" /\ pc = "start"
    /\ \E o \in Outcomes["quality"] :
         /\ response' = Responded(Ran[o])
         /\ End(quality_gate(Ran[o], threshold))
    /\ UNCHANGED <<Params, result, CicdLocals, depth>>

RobustExecution ==
    /\ fn = "robust_execution" /\ pc = "start"
    /\ \E o \in Outcomes["quality"] :
         /\ response' = Responded(Ran[o])
         /\ End(robust_execution(Ran[o]))
    /\ UNCHANGED <<Params, result, CicdLocals, depth>>

TestCheck ==
    /\ fn = "test_with_feedback" /\ pc = "start"
    /\ \E o \in Outcomes["check"] :
         /\ response' = Responded(Ran[o])
         /\ Do(TestWithFeedbackCheck(Ran[o]))
    /\ UNCHANGED <<Params, result, CicdLocals, depth>>

TestFeedback ==
    /\ fn = "test_with_feedback" /\ pc = "feedback"
    /\ \E o \in Outcomes["feedback"] :
         /\ response' = Responded(Ran[o])
         /\ Do(TestWithFeedbackFeedback(Ran[o]))
    /\ UNCHANGED <<Params, result, CicdLocals, depth>>

CheckQuality ==
    /\ fn = "cicd_check" /\ pc = "start"
    /\ \E o \in Outcomes["quality"] :
         LET b == CicdQuality(Ran[o], failed, quality_threshold) IN
         /\ response' = Responded(Ran[o])
         /\ Do(b)
         /\ IF b.how = "continue"
            THEN failed' = b.failed /\ quality_score' = b.val
            ELSE UNCHANGED <<failed, quality_score>>
    /\ UNCHANGED <<Params, result, coverage_score, critical_count, depth>>

CheckCoverage ==
    /\ fn = "cicd_check" /\ pc = "coverage"
    /\ \E o \in Outcomes["coverage"] :
         LET b == CicdCoverage(Ran[o], failed, coverage_threshold) IN
         /\ response' = Responded(Ran[o])
         /\ Do(b)
         /\ IF b.how = "continue"
            THEN failed' = b.failed /\ coverage_score' = b.val
            ELSE UNCHANGED <<failed, coverage_score>>
    /\ UNCHANGED <<Params, result, quality_score, critical_count, depth>>

CheckGaps ==
    /\ fn = "cicd_check" /\ pc = "gaps"
    /\ \E o \in Outcomes["gaps"] :
         LET b == CicdGaps(Ran[o], failed, allow_critical_gaps) IN
         /\ response' = Responded(Ran[o])
         /\ Do(b)
         /\ IF b.how = "continue"
            THEN failed' = b.failed /\ critical_count' = b.val
            ELSE UNCHANGED <<failed, critical_count>>
    /\ UNCHANGED <<Params, result, quality_score, coverage_score, depth>>

CheckTests ==
    /\ fn = "cicd_check" /\ pc = "check"
    /\ \E o \in Outcomes["check"] :
         LET b == CicdCheck(Ran[o], failed) IN
         /\ response' = Responded(Ran[o])
         /\ Do(b)
         /\ failed' = (failed \/ (b.how = "exited"))
    /\ UNCHANGED <<Params, result, quality_score, coverage_score,
                   critical_count, depth>>

WorkflowStart ==
    /\ fn = "auto_workflow" /\ pc = "start"
    /\ \E o \in Outcomes["quality"] :
         /\ response' = Responded(Ran[o])
         /\ Do(AutoWorkflowStart(Ran[o]))
    /\ depth' = 0
    /\ UNCHANGED <<Params, result, CicdLocals>>

\* one iteration of the loop of lines 329-344
WorkflowStep ==
    /\ fn = "auto_workflow" /\ pc = "loop"
    /\ LoopCondition(response, depth, max_depth)
    /\ LET tr == StepHeader(response, depth)
           p == ParseCommand(response.next_actions[1].command)
       IN IF p.raised
          THEN End(Raised(tr, p.exc)) /\ UNCHANGED <<response, depth>>
          ELSE \E o \in Outcomes[p.value.command] :
                 LET b == AutoWorkflowInvoke(Ran[o], p.value, tr) IN
                 /\ response' = Responded(Ran[o])
                 /\ Do(b)
                 /\ depth' = (IF b.how = "continue" THEN depth + 1 ELSE depth)
    /\ UNCHANGED <<Params, result, CicdLocals>>

\* line 346: the loop is over
WorkflowComplete ==
    /\ fn = "auto_workflow" /\ pc = "loop"
    /\ ~LoopCondition(response, depth, max_depth)
    /\ End(Returned(<<Say("Workflow Complete", JNull)>>))
    /\ UNCHANGED <<Params, result, response, CicdLocals, depth>>

Next ==
    \/ QualityGate
    \/ RobustExecution
    \/ TestCheck
    \/ TestFeedback
    \/ CheckQuality
    \/ CheckCoverage
    \/ CheckGaps
    \/ CheckTests
    \/ WorkflowStart
    \/ WorkflowStep
    \/ WorkflowComplete

Spec == Init /\ [][Next]_vars

----------------------------------------------------------------------------
(* run_intent_command on its own: one call, with every return code and a   *)
(* wider set of documents on standard output.                              *)

\* JSON values that are no object
NonObjects == {JNull, JBool(TRUE), JInt(1), JStr("ok"), JList(<<>>)}

\* values of the wrong shape for a field of the schema
Misshapen == {JNull, JInt(1), JStr("yes"), JStr(""), JList(<<JInt(1)>>), EmptyObj}

\* well-formed documents that hold errors and suggestions at once
WithErrorsAndActions ==
    {ResponseObj("quality", s, ec, CHOOSE d \in QualityData : TRUE, es, as) :
        s \in BOOLEAN, ec \in ExitCodes, es \in ErrorLists, as \in ActionLists}

RunnerDocs ==
    LET good == WellFormed("quality") IN
    good
    \cup WithErrorsAndActions
    \cup {DropKey(d, f) : d \in good,
                          f \in {RequiredFields[i] : i \in 1..Len(RequiredFields)}
                                \cup {"spec_path"}}
    \cup {SetKey(BaseObj("quality"), RequiredFields[i], v) :
             i \in 1..Len(RequiredFields), v \in Misshapen}
    \cup NonObjects

RunnerOutcomes ==
    {SpawnFailure} \cup
    {Completed(rc, out) :
        rc \in ReturnCodes, out \in {NotJson} \cup {JsonText(v) : v \in RunnerDocs}}

InitRunner ==
    /\ fn = "run_intent_command"
    /\ pc = "start"
    /\ threshold = DefaultThreshold
    /\ quality_threshold = DefaultThreshold
    /\ coverage_threshold = DefaultCoverageThreshold
    /\ allow_critical_gaps = FALSE
    /\ max_depth = DefaultMaxDepth
    /\ result = NoResult
    /\ response = NoResponse
    /\ failed = FALSE
    /\ quality_score = JNull
    /\ coverage_score = JNull
    /\ critical_count = JNull
    /\ depth = 0
    /\ trace = <<>>
    /\ status = "running"
    /\ exc = "none"
    /\ exit_code = -1

\* one call run_intent_command("quality", [spec_path]), to its return or
\* to the exception that leaves it
RunIntentCommand ==
    /\ fn = "run_intent_command" /\ pc = "start"
    /\ \E o \in RunnerOutcomes :
         LET r == run_intent_command(o) IN
         /\ result' = o
         /\ response' = Responded(r)
         /\ status' = (IF r.raised THEN "raised" ELSE "returned")
         /\ exc' = (IF r.raised THEN r.exc ELSE "none")
    /\ trace' = <<Invoke("quality", <<SpecPath>>)>>
    /\ pc' = "done"
    /\ UNCHANGED <<Params, CicdLocals, depth, exit_code>>

NextRunner == RunIntentCommand

SpecRunner == InitRunner /\ [][NextRunner]_vars

----------------------------------------------------------------------------
(* Reading the trace.                                                      *)

\* the invocations issued so far, in order
Invocations == SelectSeq(trace, LAMBDA e : e.ev = "invoke")

\* the sub-commands invoked so far, in order
CommandsRun == [i \in 1..Len(Invocations) |-> Invocations[i].argv[2]]

\* the values printed so far by the line `what`, in order
Said(what) ==
    LET es == SelectSeq(trace, LAMBDA e : e.ev = "print" /\ e.what = what)
    IN [i \in 1..Len(es) |-> es[i].val]

\* where in the trace files were written, and `feedback` was invoked
Writes == {i \in 1..Len(trace) : trace[i].ev = "write"}
FeedbackCalls ==
    {i \in 1..Len(trace) : trace[i].ev = "invoke" /\ trace[i].argv[2] = "feedback"}

IsPrefix(a, b) == Len(a) <= Len(b) /\ a = SubSeq(b, 1, Len(a))

\* the policy function got a response from its last invocation
Answered == pc = "done" /\ response # NoResponse

----------------------------------------------------------------------------
(* Claims.                                                                 *)

\* C1: quality_gate on a response with success=true and an integer score:
\* a score below the threshold ends the process with exit code 1 after
\* every issue and every suggestion was printed, in order; a score at or
\* above the threshold lets the gate return normally (status 0) after the
\* pass message.
C1_QualityGateThreshold ==
    (/\ fn = "quality_gate" /\ Answered
     /\ response.success = JBool(TRUE)
     /\ response.data.t = "obj"
     /\ {"overall_score", "issues", "suggestions"} \subseteq DOMAIN response.data.o
     /\ response.data.o["overall_score"].t = "int")
    => LET data == response.data.o IN
       IF data["overall_score"].n < threshold
       THEN /\ status = "exited" /\ exit_code = 1
            /\ Said("issue") = data["issues"].l
            /\ Said("suggestion") = data["suggestions"].l
            /\ Said("Quality gate passed") = <<>>
       ELSE /\ status = "returned" /\ exit_code = 0
            /\ Said("Quality gate passed") = <<data["overall_score"]>>
            /\ Said("issue") = <<>>

\* C1 witness: threshold 80, score 79: exit code 1, both issues printed
C1_Witness ==
    /\ fn = "quality_gate" /\ Answered
    /\ threshold = 80
    /\ response.success = JBool(TRUE)
    /\ response.data = JObj([overall_score |-> JInt(79),
                             issues |-> JList(<<JStr("issue-1"), JStr("issue-2")>>),
                             suggestions |-> JList(<<JStr("suggestion-1")>>)])
    /\ status = "exited" /\ exit_code = 1
    /\ Len(Said("issue")) = 2

\* the four sub-commands of cicd_check, in order
FourChecks == <<"quality", "coverage", "gaps", "check">>

\* C2: cicd_check invokes quality, coverage, gaps, check in that order, each
\* once, with the spec path; a run that no exception ended has invoked all
\* four, whatever the scores were.
C2_NoShortCircuit ==
    fn = "cicd_check" =>
        /\ IsPrefix(CommandsRun, FourChecks)
        /\ \A i \in 1..Len(Invocations) :
              Invocations[i].argv = <<"intent", FourChecks[i], SpecPath, "--json=true">>
        /\ status \in {"returned", "exited"} => CommandsRun = FourChecks

\* C2 witness: the quality score was below its threshold, and all four ran
C2_Witness ==
    /\ fn = "cicd_check" /\ pc = "done"
    /\ status = "exited"
    /\ quality_score = JInt(79) /\ quality_threshold = 80
    /\ CommandsRun = FourChecks

\* the failure predicates of cicd_check, on the values the four responses held
CicdFailure ==
    \/ quality_score.n < quality_threshold
    \/ coverage_score.n < coverage_threshold
    \/ (critical_count.n > 0 /\ ~allow_critical_gaps)
    \/ response.data.o["failed"].n > 0

\* C3: after its four invocations cicd_check ends the process with exit
\* code 1 exactly when a failure predicate holds, and returns normally
\* (status 0) otherwise.
C3_CicdExitDecision ==
    (fn = "cicd_check" /\ pc = "done" /\ status \in {"returned", "exited"})
    => /\ failed = CicdFailure
       /\ CicdFailure => status = "exited" /\ exit_code = 1
       /\ ~CicdFailure => status = "returned" /\ exit_code = 0

\* C3 witness: only the coverage is below its threshold (60.0 < 70.0); the
\* quality score equals its threshold
C3_Witness ==
    /\ fn = "cicd_check" /\ pc = "done"
    /\ quality_threshold = 80 /\ quality_score = JInt(80)
    /\ coverage_score = JInt(600)
    /\ critical_count = JInt(0)
    /\ Answered /\ response.data.t = "obj" /\ "failed" \in DOMAIN response.data.o
    /\ response.data.o["failed"] = JInt(0)
    /\ status = "exited" /\ exit_code = 1

\* the check response was read in full (lines 220-224)
CheckReported == Said("duration_ms") # <<>>

\* C4: test_with_feedback with no failed test writes no file, never invokes
\* feedback and returns; with failed tests it writes check-results.json with
\* the data of the check response, then invokes feedback once with
\* --results check-results.json, and only then the process ends, with exit
\* code 1.
C4_FeedbackOrder ==
    fn = "test_with_feedback" =>
        /\ Cardinality(Writes) <= 1 /\ Cardinality(FeedbackCalls) <= 1
        /\ \A j \in FeedbackCalls :
              /\ trace[j].argv =
                   <<"intent", "feedback", "--results", "check-results.json",
                     "--json=true">>
              /\ \E i \in Writes : i < j
        /\ \A i \in Writes :
              /\ trace[i].file = "check-results.json"
              /\ trace[i].content.o["failed"] = Said("failed")[1]
              /\ pc = "feedback" => trace[i].content = response.data
        /\ status = "returned" => Writes = {} /\ FeedbackCalls = {}
        /\ CheckReported =>
              IF Said("failed")[1].n > 0
              THEN /\ Writes # {}
                   /\ \/ pc = "feedback" /\ status = "running" /\ FeedbackCalls = {}
                      \/ /\ pc = "done" /\ FeedbackCalls # {}
                         /\ status \in {"exited", "uncaught"} /\ exit_code = 1
              ELSE /\ pc = "done" /\ status = "returned"
                   /\ Writes = {} /\ FeedbackCalls = {}

\* C4 witness: two failed tests; the file was written, feedback invoked after
\* it, and the process ended with exit code 1
C4_Witness ==
    /\ fn = "test_with_feedback" /\ pc = "done"
    /\ Said("failed") = <<JInt(2)>>
    /\ Writes # {} /\ FeedbackCalls # {}
    /\ status = "exited" /\ exit_code = 1

\* C5: auto_workflow never issues more than 1 + max_depth invocations, and
\* when it completes on a response that still has next actions (max_depth
\* >= 0) it has issued exactly 1 + max_depth: those next actions are not
\* followed.
C5_DepthCap ==
    fn = "auto_workflow" =>
        /\ Len(Invocations) <= 1 + (IF max_depth > 0 THEN max_depth ELSE 0)
        /\ (status = "returned" /\ max_depth >= 0 /\ response.next_actions # <<>>)
             => /\ Len(Invocations) = 1 + max_depth
                /\ depth = max_depth
                /\ trace[Len(trace)] = Say("Workflow Complete", JNull)

\* C5 witness: max_depth 3, four invocations, the fourth response has next
\* actions, the workflow is complete
C5_Witness ==
    /\ fn = "auto_workflow" /\ max_depth = 3
    /\ status = "returned"
    /\ response.next_actions # <<>>
    /\ Len(Invocations) = 4

\* C6: robust_execution on a response with success false ends the process
\* with the exit code the response reports in metadata.exit_code: the exit
\* is not caught and turned into 4, nor replaced by 1.
C6_ExitCodePropagated ==
    (fn = "robust_execution" /\ Answered /\ response.success = JBool(FALSE))
    => /\ status = "exited"
       /\ exc = "SystemExit"
       /\ exit_code = response.metadata.exit_code.n

\* C6 witness: success false with exit code 7 ends the process with 7
C6_Witness ==
    /\ fn = "robust_execution" /\ Answered
    /\ response.success = JBool(FALSE)
    /\ response.metadata.exit_code = JInt(7)
    /\ status = "exited" /\ exit_code = 7

\* C7: robust_execution whose invocation raises (the process cannot be
\* spawned, the output is no JSON, a required field is missing) prints the
\* failure on the error stream and ends the process with exit code 4.
C7_CatchAllExitsFour ==
    (fn = "robust_execution" /\ pc = "done" /\ response = NoResponse)
    => /\ exc \in {"FileNotFoundError", "JSONDecodeError", "KeyError", "TypeError"}
       /\ status = "exited" /\ exit_code = 4
       /\ trace[Len(trace)] = SayErr("Execution error", JStr(exc))

\* C7 witness: a document that lacks a required field ends the run with 4
C7_Witness ==
    /\ fn = "robust_execution" /\ pc = "done"
    /\ exc = "KeyError"
    /\ status = "exited" /\ exit_code = 4

\* the required fields a JSON object lacks
MissingFields(v) ==
    {RequiredFields[i] : i \in 1..Len(RequiredFields)} \ DOMAIN v.o

\* C8: run_intent_command on a JSON object that lacks a required field
\* raises and returns no response; an object that lacks only spec_path is
\* parsed, with spec_path None.
C8_MissingFieldRaises ==
    (/\ fn = "run_intent_command" /\ pc = "done"
     /\ result.spawned /\ result.stdout.json /\ result.stdout.v.t = "obj")
    => LET v == result.stdout.v IN
       /\ MissingFields(v) # {} => status = "raised" /\ response = NoResponse
       /\ (status = "returned" /\ "spec_path" \notin DOMAIN v.o)
            => response.spec_path = JNull
       /\ (v \in WellFormed("quality") \/
           \E w \in WellFormed("quality") : v = DropKey(w, "spec_path"))
            => status = "returned"

\* C8 witness: a document without `success` raised KeyError
C8_Witness ==
    /\ fn = "run_intent_command" /\ pc = "done"
    /\ result.spawned /\ result.stdout.json /\ result.stdout.v.t = "obj"
    /\ MissingFields(result.stdout.v) = {"success"}
    /\ status = "raised" /\ exc = "KeyError"

\* C9 (as claimed): a policy function whose last response has success true
\* and a nonzero metadata.exit_code does not take its pass path.
C9_MismatchIsFailure ==
    (/\ fn \in PolicyFunctions /\ Answered
     /\ response.success = JBool(TRUE)
     /\ response.metadata.exit_code # JInt(0))
    => status # "returned"

\* C10 (as claimed): whatever the return code of the subprocess, a
\* well-formed document is parsed and returned, and the return code reaches
\* the caller: the value returned for another return code would differ.
C10_ExitCodeSurfaced ==
    (/\ fn = "run_intent_command" /\ pc = "done"
     /\ result.spawned /\ result.stdout.json
     /\ result.stdout.v \in WellFormed("quality"))
    => /\ status = "returned"
       /\ \A rc \in ReturnCodes \ {result.returncode} :
             run_intent_command(Completed(rc, result.stdout)) # Return(response)

----------------------------------------------------------------------------
(* Claims on failures and exit codes.                                      *)

\* the exceptions that leave run_intent_command: the spawn failed, the
\* output is no JSON, a field is absent, a field cannot be constructed
RunnerFaults == {"FileNotFoundError", "JSONDecodeError", "KeyError", "TypeError"}

\* the sub-command of the last invocation
LastInvoked == Invocations[Len(Invocations)].argv[2]

\* the run has ended and its last invocation gave no response: nothing was
\* assigned to the caller's local (in auto_workflow, where a response may
\* repeat the sub-command of the one before, nothing was printed after it)
InvocationFailed ==
    /\ pc = "done" /\ Invocations # <<>>
    /\ IF fn = "auto_workflow"
       THEN /\ trace[Len(trace)] # Say("Workflow Complete", JNull)
            /\ trace[Len(trace) - 1].ev = "invoke"
       ELSE response = NoResponse \/ response.command # JStr(LastInvoked)

\* C11 (as claimed): in every policy function a failed invocation is caught
\* by a handler, which prints one diagnostic and ends the process with a
\* nonzero exit code.
C11_FailureCaughtOnce ==
    (fn \in PolicyFunctions /\ InvocationFailed)
    => /\ exc \in RunnerFaults
       /\ status = "exited"
       /\ exit_code # 0
       /\ trace[Len(trace)] = SayErr("Execution error", JStr(exc))

\* C12: quality_gate on a response whose success is false raises a
\* RuntimeError that carries every error message of the response, in order;
\* it reads no score, compares nothing, reports no pass, and the process
\* ends with a nonzero status, whatever the data holds.
C12_FailureAborts ==
    (fn = "quality_gate" /\ Answered /\ response.success = JBool(FALSE))
    => /\ status = "uncaught" /\ exc = "RuntimeError"
       /\ exit_code # 0
       /\ trace[Len(trace) - 1] =
            SayErr("Quality check failed",
                   JList([i \in 1..Len(response.errors) |->
                             response.errors[i].message]))
       /\ Said("Quality score") = <<>>
       /\ Said("Quality gate failed") = <<>>
       /\ Said("Quality gate passed") = <<>>

\* C12 witness: success false with two errors and data that holds no score
\* at all: the RuntimeError, not a KeyError, ended the run
C12_Witness ==
    /\ fn = "quality_gate" /\ Answered
    /\ response.success = JBool(FALSE)
    /\ Len(response.errors) = 2
    /\ "overall_score" \notin DOMAIN response.data.o
    /\ status = "uncaught" /\ exc = "RuntimeError" /\ exit_code = 1

\* C13 (as claimed): no policy function takes its pass path (returns
\* normally, exit status 0) when its last response has success false.
C13_ReportedFailureNeverPasses ==
    (fn \in PolicyFunctions /\ Answered /\ response.success = JBool(FALSE))
    => status # "returned"

\* C14 (as claimed): a run ends with 0, 1, 4 or, in robust_execution on a
\* failure, the exit code the response reports; and 1 comes only from the
\* sys.exit(1) of a threshold or test-failure branch.
C14_ExitCodeProtocol ==
    (fn \in PolicyFunctions /\ pc = "done")
    => /\ \/ exit_code \in {0, 1, 4}
          \/ /\ fn = "robust_execution" /\ Answered
             /\ response.success = JBool(FALSE)
             /\ exit_code = response.metadata.exit_code.n
       /\ exit_code = 1 =>
             /\ status = "exited"
             /\ fn \in {"quality_gate", "cicd_check", "test_with_feedback"}

----------------------------------------------------------------------------
(* Claims on the parser and on auto_workflow.                              *)

\* the documents with every field of the schema, each of its shape
ValidDocs == WellFormed("quality") \cup WithErrorsAndActions

\* the values under key k of the entries of a JSON list, in order
Column(l, k) == [i \in 1..Len(l.l) |-> l.l[i].o[k]]

\* C15: run_intent_command returns a response for every valid document, and
\* the response holds the document's success, its errors' codes in order,
\* its next actions' commands in order and its metadata.exit_code;
\* get_error_messages and get_next_actions give the messages and the
\* commands of the document, in the document's order and number.
C15_ParseRoundTrip ==
    (/\ fn = "run_intent_command" /\ pc = "done"
     /\ result.spawned /\ result.stdout.json
     /\ result.stdout.v \in ValidDocs)
    => LET v == result.stdout.v.o IN
       /\ status = "returned"
       /\ response.success = v["success"]
       /\ [i \in 1..Len(response.errors) |-> response.errors[i].code]
             = Column(v["errors"], "code")
       /\ [i \in 1..Len(response.next_actions) |-> response.next_actions[i].command]
             = Column(v["next_actions"], "command")
       /\ response.metadata.exit_code = v["metadata"].o["exit_code"]
       /\ get_error_messages(response) = Column(v["errors"], "message")
       /\ get_next_actions(response) = Column(v["next_actions"], "command")

\* C15 witness: a document with two different errors and two different
\* suggestions was parsed
C15_Witness ==
    /\ fn = "run_intent_command" /\ pc = "done" /\ status = "returned"
    /\ result.stdout.v \in WithErrorsAndActions
    /\ [i \in 1..Len(response.errors) |-> response.errors[i].code]
          = <<JStr("E001"), JStr("E002")>>
    /\ get_next_actions(response) = <<JText(CmdGaps), JText(CmdEffects)>>
    /\ response.metadata.exit_code = JInt(7)

\* the argument list each suggestion of the model stands for: the tool name
\* dropped, the sub-command, the tokens without the -- prefix in order
ExpectedArgv(cs) ==
    CASE cs = CmdCoverage -> <<"intent", "coverage", "s.cue", "--json=true">>
      [] cs = CmdGaps -> <<"intent", "gaps", "s.cue", "-o", "--json=true">>
      [] cs = CmdCheck -> <<"intent", "check", "--json=true">>
      [] cs = CmdEffects -> <<"intent", "effects", "s.cue", "--json=true">>

\* C16: every chained step of auto_workflow issues one invocation, the one
\* the first next action of the current response stands for (tool name
\* dropped, second token the sub-command, the later tokens without the --
\* prefix as arguments, in order), whatever follows it in the list; when the
\* invocation answers, its response is the current response and the depth
\* has grown by one.
C16_StepFollowsFirstAction ==
    [][(fn = "auto_workflow" /\ pc = "loop" /\ Invocations' # Invocations)
       => /\ Len(Invocations') = Len(Invocations) + 1
          /\ SubSeq(Invocations', 1, Len(Invocations)) = Invocations
          /\ Invocations'[Len(Invocations')].argv =
                ExpectedArgv(response.next_actions[1].command.cs)
          /\ Said("Next")' = Append(Said("Next"), response.next_actions[1].command)
          /\ pc' = "loop" =>
                /\ response'.command = JStr(Invocations'[Len(Invocations')].argv[2])
                /\ depth' = depth + 1]_vars

\* C16 witness: the first suggestion was "intent gaps --v s.cue -o";
\* `gaps s.cue -o` was invoked, nothing else, and the response of `gaps` is
\* the current one
C16_Witness ==
    /\ fn = "auto_workflow" /\ pc = "loop" /\ depth = 1
    /\ Said("Next") = <<JText(CmdGaps)>>
    /\ Invocations[2].argv = <<"intent", "gaps", "s.cue", "-o", "--json=true">>
    /\ Len(Invocations) = 2
    /\ response.command = JStr("gaps")

\* max_depth, or 0 when it is negative
Cap == IF max_depth > 0 THEN max_depth ELSE 0

\* auto_workflow has issued one invocation more than its depth, never more
\* than 1 + max_depth, only the initial one when max_depth <= 0; it
\* completes only on an empty list of next actions or at the depth cap; and
\* in the loop it holds a response, on which the loop condition decides
\* between another step and the completion
WorkflowBounded ==
    fn = "auto_workflow" =>
        /\ Len(Invocations) <= 1 + Cap
        /\ pc \in {"start", "loop", "done"}
        /\ pc = "loop" => response # NoResponse /\ status = "running"
        /\ (pc = "loop" \/ status = "returned") =>
              /\ Len(Invocations) = 1 + depth
              /\ depth <= Cap
        /\ max_depth <= 0 =>
              IsPrefix(Invocations, <<Invoke("quality", <<SpecPath>>)>>)
        /\ status = "returned" =>
              response.next_actions = <<>> \/ depth >= max_depth

\* the invocations auto_workflow may still issue
Fuel == 1 + Cap - Len(Invocations)

\* a step that does not end the run issues an invocation and leaves room for
\* one less
WorkflowProgress ==
    (fn = "auto_workflow" /\ pc' # "done") => Fuel' < Fuel /\ Fuel' >= 0

\* on a response without next actions the only step left is the completion
WorkflowStopsOnEmpty ==
    (fn = "auto_workflow" /\ pc = "loop" /\ response.next_actions = <<>>)
    => /\ Invocations' = Invocations
       /\ pc' = "done" /\ status' = "returned"

\* C17: auto_workflow terminates, whatever the CLI answers: every step that
\* does not end the run uses up one of at most 1 + max_depth invocations
\* (one, the initial one, when max_depth <= 0), so a run takes at most
\* 2 + max_depth steps; and it stops without a further invocation as soon
\* as the current response has no next action.
C17_Termination ==
    /\ []WorkflowBounded
    /\ [][WorkflowProgress /\ WorkflowStopsOnEmpty]_vars

\* C17 witness: max_depth 3, and the run completed after one chained step
\* because the second response held no next action
C17_Witness ==
    /\ fn = "auto_workflow" /\ max_depth = 3
    /\ pc = "done" /\ status = "returned"
    /\ response.next_actions = <<>>
    /\ depth = 1 /\ Len(Invocations) = 2

\* the errors of a response that carry a fix command
WithFixCommand(r) == SelectSeq(r.errors, LAMBDA e : e.fix_command # JNull)

\* C18: robust_execution issues one invocation, `quality` with the spec
\* path, and no other: on a failure it prints the fix command of every
\* error that carries one, in order, and ends the process without having
\* run any of them.
C18_NoFixExecuted ==
    fn = "robust_execution" =>
        /\ IsPrefix(Invocations, <<Invoke("quality", <<SpecPath>>)>>)
        /\ pc = "done" => Len(Invocations) = 1
        /\ \A i, j \in 1..Len(trace) :
              (trace[i].ev = "print" /\ trace[j].ev = "invoke") => j < i
        /\ (Answered /\ response.success = JBool(FALSE)) =>
              /\ Said("Running") =
                    [i \in 1..Len(WithFixCommand(response)) |->
                        WithFixCommand(response)[i].fix_command]
              /\ Len(Said("Attempting auto-fix")) =
                    (IF WithFixCommand(response) = <<>> THEN 0 ELSE 1)
              /\ status = "exited"

\* C18 witness: two errors, one with a fix command: it was announced, and
\* the run ended after its single invocation
C18_Witness ==
    /\ fn = "robust_execution" /\ Answered
    /\ response.success = JBool(FALSE)
    /\ Len(response.errors) = 2
    /\ Said("Running") = <<JStr("intent fix spec.cue")>>
    /\ Len(Invocations) = 1
    /\ status = "exited"

\* a value that is not of the shape the schema gives the field f
WrongShape(f, v) ==
    CASE f = "success" -> v.t # "bool"
      [] f \in {"action", "command"} -> v.t # "str"
      [] f = "data" -> v.t # "obj"
      [] f \in {"errors", "next_actions"} -> v.t # "list"
      [] f = "metadata" ->
           IF v.t = "obj" THEN DOMAIN v.o # JsonMetadataFields ELSE TRUE

\* C19 (as claimed): run_intent_command raises, and returns no response, on
\* a JSON object that holds every required field but one of them in the
\* wrong shape.
C19_WrongShapeRaises ==
    (/\ fn = "run_intent_command" /\ pc = "done"
     /\ result.spawned /\ result.stdout.json /\ result.stdout.v.t = "obj"
     /\ MissingFields(result.stdout.v) = {}
     /\ \E i \in 1..Len(RequiredFields) :
           WrongShape(RequiredFields[i], result.stdout.v.o[RequiredFields[i]]))
    => status = "raised" /\ response = NoResponse

\* the suggestions with fewer than two tokens: "intent", "", " \t"
Degenerate == {CmdToolOnly, CmdEmpty, CmdBlank}

\* C20: a step of auto_workflow whose first next action has fewer than two
\* tokens ends the run by an IndexError, after the step's header and before
\* any invocation for it: the invocations are the initial one and those of
\* the steps before, and the workflow is never reported complete.
C20_DegenerateActionFaults ==
    fn = "auto_workflow" =>
        \A k \in 1..Len(Said("Next")) :
            Said("Next")[k].cs \in Degenerate =>
                /\ k = Len(Said("Next"))
                /\ pc = "done" /\ status = "uncaught" /\ exc = "IndexError"
                /\ exit_code = 1
                /\ Len(Invocations) = k
                /\ trace[Len(trace) - 1].ev = "print"
                /\ trace[Len(trace) - 1].what = "Reason"
                /\ Said("Workflow Complete") = <<>>

\* C20 witness: the first step ran `coverage`, the second found a suggestion
\* of whitespace only and ended the run
C20_Witness ==
    /\ fn = "auto_workflow" /\ pc = "done"
    /\ Said("Next") = <<JText(CmdCoverage), JText(CmdBlank)>>
    /\ CommandsRun = <<"quality", "coverage">>
    /\ status = "uncaught" /\ exc = "IndexError"

====
